---- MODULE Spec2Model ----
(***************************************************************************)
(* Reward-generation core of pokemon-hotel: the pity tracker               *)
(* (src/services/pitySystem.ts), the card selector                         *)
(* (src/services/cardGenerator.ts), the guess feedback and tier            *)
(* calculation (src/services/wordleLogic.ts), the tier tables and the      *)
(* game routes that drive them (guess, read, capture).                     *)
(*                                                                         *)
(* One user is modelled.  The PityTracker table holds at most one row for  *)
(* that user (unique index PityTracker_userId_key).  Every `await` on the  *)
(* persistence layer is an interleaving point between requests.            *)
(***************************************************************************)
EXTENDS Integers, Sequences, FiniteSets, TLC

\* ---------------------------------------------------------------- bounds
\* concurrent requests of the one user, and requests per behaviour
NumProcs == 2
MaxGames == 2
\* requests per behaviour of the one-request-at-a-time specification
MaxSeqGames == 11

Procs == 1..NumProcs
SeqProcs == {1}
Tiers == 1..6

\* ------------------------------------------------------------- variables
VARIABLES
  pityTracker,   \* rows of table PityTracker for the user: {} or {row}
  req,           \* per request slot: position in updatePityTracker/getPityTracker and its locals
  clock,         \* wall clock read by `new Date()`; one tick per request
  run6,          \* history: length of the current run of tier-6, no-ceiling transitions
  runOK,         \* history: the run started at hardPityCounter = 0 and nothing else wrote
  catalog,       \* rows of table Card; read-only during gameplay
  offer,         \* outcome of the generateCardOffers call of this behaviour
  input,         \* arguments of the call of a pure function under check
  output,        \* what that call returned
  game,          \* the row of table Game of the game being played
  guesses,       \* rows of table Guess of that game
  userCards,     \* rows of table UserCard of that game (UserCard_gameId_key)
  pokedex,       \* card ids of the user's PokedexEntry rows
  client,        \* per client: position in a route handler of the game and its locals
  requests,      \* requests issued so far
  pityWrites,    \* history: pity transitions written
  pokemonSpawn,  \* rows of table PokemonSpawn
  games,         \* rows of table Game created by POST /games
  responses      \* POST /games requests served, with their responses

pityVars == <<pityTracker, req, clock, run6, runOK>>
offerVars == <<catalog, offer>>
logicVars == <<input, output>>
startVars == <<pokemonSpawn, games, responses>>
gameVars == <<game, guesses, userCards, pokedex, client, requests, pityWrites, startVars>>

\* ------------------------------------------------------------ PityState
\* lastCeilingPull: <<>> is null, <<t>> is the timestamp t
ZeroTracker ==
  [consecutiveTier6 |-> 0, consecutiveTier5 |-> 0, gamesWithoutCeiling |-> 0,
   hardPityCounter |-> 0, totalGames |-> 0, lastCeilingPull |-> <<>>]

Idle == [pc |-> "idle", op |-> "none", tier |-> 1, pulledCeiling |-> FALSE,
         tracker |-> ZeroTracker, now |-> 0]

\* prisma `update({data})`: only the fields named in data are written
ApplyUpdate(row, data) ==
  [f \in DOMAIN row |-> IF f \in DOMAIN data THEN data[f] ELSE row[f]]

\* faults of streakUpdates: a branch that forgets to reset the other counter
streakUpdatesTier5KeepsTier6(tracker, tier) ==
  IF tier = 6
    THEN [consecutiveTier6 |-> tracker.consecutiveTier6 + 1, consecutiveTier5 |-> 0]
    ELSE IF tier = 5
      THEN [consecutiveTier5 |-> tracker.consecutiveTier5 + 1]
      ELSE [consecutiveTier6 |-> 0, consecutiveTier5 |-> 0]

streakUpdatesTier6KeepsTier5(tracker, tier) ==
  IF tier = 6
    THEN [consecutiveTier6 |-> tracker.consecutiveTier6 + 1]
    ELSE IF tier = 5
      THEN [consecutiveTier5 |-> tracker.consecutiveTier5 + 1, consecutiveTier6 |-> 0]
      ELSE [consecutiveTier6 |-> 0, consecutiveTier5 |-> 0]

streakUpdatesBetterKeepsTier5(tracker, tier) ==
  IF tier = 6
    THEN [consecutiveTier6 |-> tracker.consecutiveTier6 + 1, consecutiveTier5 |-> 0]
    ELSE IF tier = 5
      THEN [consecutiveTier5 |-> tracker.consecutiveTier5 + 1, consecutiveTier6 |-> 0]
      ELSE [consecutiveTier6 |-> 0]

\* the `updates` object built by updatePityTracker from the state it read
streakUpdates(tracker, tier) ==
  IF tier = 6
    THEN [consecutiveTier6 |-> tracker.consecutiveTier6 + 1, consecutiveTier5 |-> 0]
    ELSE IF tier = 5
      THEN [consecutiveTier5 |-> tracker.consecutiveTier5 + 1, consecutiveTier6 |-> 0]
      ELSE [consecutiveTier6 |-> 0, consecutiveTier5 |-> 0]

\* fault of ceilingUpdates: gamesWithoutCeiling left as it is without a ceiling capture
ceilingUpdatesNoCount(tracker, pulledCeiling, now) ==
  IF pulledCeiling
    THEN [gamesWithoutCeiling |-> 0, hardPityCounter |-> 0, lastCeilingPull |-> <<now>>]
    ELSE [gamesWithoutCeiling |-> tracker.gamesWithoutCeiling]

\* fault of ceilingUpdates: a ceiling capture that leaves hardPityCounter running
ceilingUpdatesKeepsHardPity(tracker, pulledCeiling, now) ==
  IF pulledCeiling
    THEN [gamesWithoutCeiling |-> 0, lastCeilingPull |-> <<now>>]
    ELSE [gamesWithoutCeiling |-> tracker.gamesWithoutCeiling + 1]

ceilingUpdates(tracker, pulledCeiling, now) ==
  IF pulledCeiling
    THEN [gamesWithoutCeiling |-> 0, hardPityCounter |-> 0, lastCeilingPull |-> <<now>>]
    ELSE [gamesWithoutCeiling |-> tracker.gamesWithoutCeiling + 1]

\* fault of pityUpdates: hard pity used up by the next game, whatever was captured
pityUpdatesHardPityOnce(tracker, tier, pulledCeiling, now) ==
  ceilingUpdates(tracker, pulledCeiling, now)
    @@ streakUpdates(tracker, tier)
    @@ [totalGames |-> tracker.totalGames + 1,
        hardPityCounter |-> IF tracker.hardPityCounter >= 10
                              THEN 0 ELSE tracker.hardPityCounter + 1]

\* fault of pityUpdates: a game counted twice
pityUpdatesCountsTwice(tracker, tier, pulledCeiling, now) ==
  ceilingUpdates(tracker, pulledCeiling, now)
    @@ streakUpdates(tracker, tier)
    @@ [totalGames |-> tracker.totalGames + 2,
        hardPityCounter |-> tracker.hardPityCounter + 1]

pityUpdates(tracker, tier, pulledCeiling, now) ==
  ceilingUpdates(tracker, pulledCeiling, now)
    @@ streakUpdates(tracker, tier)
    @@ [totalGames |-> tracker.totalGames + 1,
        hardPityCounter |-> tracker.hardPityCounter + 1]

\* calculatePityModifiers; coin is the outcome of `Math.random() < 0.2`;
\* multipliers are in tenths (25 is 2.5)
Max2(a, b) == IF a >= b THEN a ELSE b

\* fault of softMultiplier: the boost of three tier-6 games already at two
softMultiplierEarly(pity) ==
  IF pity.consecutiveTier6 >= 2 THEN 25
  ELSE 10

softMultiplier(pity) ==
  IF pity.consecutiveTier6 >= 3 THEN 25
  ELSE IF pity.consecutiveTier6 = 2 THEN 15
  ELSE 10

\* fault of calculatePityModifiers: hard pity one game late (`> 10`)
calculatePityModifiersAfterTen(pity, coin) ==
  IF pity.hardPityCounter > 10
    THEN [ceilingWeightMultiplier |-> 10, guaranteeCeiling |-> TRUE, tierBoost |-> FALSE]
    ELSE [ceilingWeightMultiplier |->
            IF pity.gamesWithoutCeiling >= 7 THEN Max2(softMultiplier(pity), 20)
            ELSE IF pity.gamesWithoutCeiling >= 5 THEN Max2(softMultiplier(pity), 13)
            ELSE softMultiplier(pity),
          guaranteeCeiling |-> FALSE,
          tierBoost |-> (pity.consecutiveTier6 >= 3 /\ coin)]

calculatePityModifiers(pity, coin) ==
  IF pity.hardPityCounter >= 10
    THEN [ceilingWeightMultiplier |-> 10, guaranteeCeiling |-> TRUE, tierBoost |-> FALSE]
    ELSE [ceilingWeightMultiplier |->
            IF pity.gamesWithoutCeiling >= 7 THEN Max2(softMultiplier(pity), 20)
            ELSE IF pity.gamesWithoutCeiling >= 5 THEN Max2(softMultiplier(pity), 13)
            ELSE softMultiplier(pity),
          guaranteeCeiling |-> FALSE,
          tierBoost |-> (pity.consecutiveTier6 >= 3 /\ coin)]

\* ------------------------------------------------------- pity operations
\* getPityTracker, first await: prisma.pityTracker.findUnique.
\* op = "update": called from updatePityTracker(userId, tier, pulledCeiling);
\* op = "get": called from generateCardOffers, which only reads the state.
getPityTrackerFind(p, op, tier, pulledCeiling, maxGames) ==
  /\ req[p].pc = "idle"
  /\ clock < maxGames
  /\ clock' = clock + 1
  /\ IF pityTracker = {}
       THEN req' = [req EXCEPT ![p] = [Idle EXCEPT !.pc = "create", !.op = op,
                       !.tier = tier, !.pulledCeiling = pulledCeiling]]
       ELSE \E row \in pityTracker :
              req' = [req EXCEPT ![p] =
                        IF op = "update"
                          THEN [pc |-> "update", op |-> op, tier |-> tier,
                                pulledCeiling |-> pulledCeiling, tracker |-> row,
                                now |-> clock']
                          ELSE Idle]
  /\ UNCHANGED <<pityTracker, run6, runOK>>
  /\ UNCHANGED offerVars
  /\ UNCHANGED logicVars

\* getPityTracker, second await: prisma.pityTracker.create({data: {userId}}).
\* A row created meanwhile violates PityTracker_userId_key: create throws and
\* the request ends without a transition.
getPityTrackerCreate(p) ==
  /\ req[p].pc = "create"
  /\ IF pityTracker = {}
       THEN /\ pityTracker' = {ZeroTracker}
            /\ run6' = 0
            /\ runOK' = TRUE
            /\ req' = [req EXCEPT ![p] =
                         IF req[p].op = "update"
                           THEN [req[p] EXCEPT !.pc = "update", !.tracker = ZeroTracker,
                                               !.now = clock]
                           ELSE Idle]
       ELSE /\ req' = [req EXCEPT ![p] = Idle]
            /\ UNCHANGED <<pityTracker, run6, runOK>>
  /\ UNCHANGED clock
  /\ UNCHANGED offerVars
  /\ UNCHANGED logicVars

\* updatePityTracker, last await: prisma.pityTracker.update({data: updates})
updatePityTrackerWrite(p) ==
  /\ req[p].pc = "update"
  /\ \E row \in pityTracker :
       LET data == pityUpdates(req[p].tracker, req[p].tier, req[p].pulledCeiling, req[p].now)
           serial == (req[p].tracker = row)
       IN /\ pityTracker' = {ApplyUpdate(row, data)}
          /\ IF req[p].pulledCeiling
               THEN run6' = 0 /\ runOK' = TRUE
               ELSE IF req[p].tier = 6 /\ serial /\ runOK
                 THEN run6' = run6 + 1 /\ runOK' = TRUE
                 ELSE run6' = 0 /\ runOK' = FALSE
  /\ req' = [req EXCEPT ![p] = Idle]
  /\ UNCHANGED clock
  /\ UNCHANGED offerVars
  /\ UNCHANGED logicVars

\* updatePityTracker called for a captured card of some game of the user:
\* its write, counted
updatePityTrackerApplied(p) ==
  /\ updatePityTrackerWrite(p)
  /\ pityWrites' = pityWrites + 1
  /\ UNCHANGED <<game, guesses, userCards, pokedex, client, requests, startVars>>

\* fault of resetPityTrackerData: a reset that also clears totalGames
resetPityTrackerDataAll ==
  [consecutiveTier6 |-> 0, consecutiveTier5 |-> 0, gamesWithoutCeiling |-> 0,
   hardPityCounter |-> 0, totalGames |-> 0, lastCeilingPull |-> <<>>]

\* the `data` object of resetPityTracker
resetPityTrackerData ==
  [consecutiveTier6 |-> 0, consecutiveTier5 |-> 0, gamesWithoutCeiling |-> 0,
   hardPityCounter |-> 0, lastCeilingPull |-> <<>>]

\* resetPityTracker: one prisma update; it throws when the user has no row
resetPityTracker ==
  /\ pityTracker # {}
  /\ \E row \in pityTracker :
       pityTracker' = {ApplyUpdate(row, resetPityTrackerData)}
  /\ pityTracker' # pityTracker
  /\ run6' = 0
  /\ runOK' = TRUE
  /\ UNCHANGED <<req, clock>>
  /\ UNCHANGED offerVars
  /\ UNCHANGED logicVars
  /\ UNCHANGED gameVars

PityInit ==
  /\ pityTracker = {}
  /\ req = [p \in Procs |-> Idle]
  /\ clock = 0
  /\ run6 = 0
  /\ runOK = FALSE

\* ----------------------------------------------------------- card catalog
\* bound of the catalogs the card selector is run on
MaxCards == 3

\* the entities of the catalog: the game's answer and one other entity
\* (selection treats all entities other than the answer alike)
PokemonIds == {1, 2}
AnswerIds == {1}

\* drop weights the seed scripts store on a card: getWeightForRarity of the
\* rarest ('Immersive') and of the most common ('Common') rarity
CeilingWeight == 1
FloorWeight == 50

\* the kinds of Card rows, numbered 0..NumKinds-1
NumKinds == Cardinality(PokemonIds) * 6 * 2

Card(id, kind) ==
  [id |-> id,
   pokemonId |-> (kind \div 12) + 1,
   tier |-> ((kind \div 2) % 6) + 1,
   isCeiling |-> (kind % 2 = 1),
   weight |-> IF kind % 2 = 1 THEN CeilingWeight ELSE FloorWeight]

\* Card.id is SERIAL: a catalog of n cards has ids 1..n.  No query of the
\* selector depends on which id a row has, so one catalog per multiset of
\* kinds is enumerated: the kinds of cards 1..n in non-decreasing order,
\* starting at kind lo.
RECURSIVE KindSeqs(_, _)
KindSeqs(n, lo) ==
  IF n = 0 THEN {<<>>}
  ELSE UNION {{<<k>> \o s : s \in KindSeqs(n - 1, k)} : k \in lo..(NumKinds - 1)}

Catalogs ==
  UNION {{{Card(i, s[i]) : i \in 1..n} : s \in KindSeqs(n, 0)} : n \in 0..MaxCards}

\* PityTracker rows the selector is run on, each reachable by the pity
\* transitions: no row yet (read as all zeros); after three tier-6 games
\* (soft pity, tier boost possible); after ten tier-6 games (hard pity);
\* all without a ceiling capture
PityAfter(n6, n) ==
  [consecutiveTier6 |-> n6, consecutiveTier5 |-> 0, gamesWithoutCeiling |-> n,
   hardPityCounter |-> n, totalGames |-> n, lastCeilingPull |-> <<>>]

OfferPityTables ==
  {{}, {PityAfter(3, 3)}, {PityAfter(10, 10)}}

NoOffer ==
  [status |-> "none", tier |-> 1, pokemonId |-> 1, effectiveTier |-> 1,
   tierBoost |-> FALSE, hardPity |-> FALSE, cards |-> <<>>]

\* ------------------------------------------------------------ card selector
\* prisma findMany without orderBy, rows in primary-key order
RECURSIVE SeqById(_)
SeqById(S) ==
  IF S = {} THEN <<>>
  ELSE LET m == CHOOSE c \in S : \A d \in S : c.id <= d.id
       IN <<m>> \o SeqById(S \ {m})

\* `items.map(item => item.weight || 1)`
itemWeights(items) ==
  [i \in 1..Len(items) |-> IF items[i].weight = 0 THEN 1 ELSE items[i].weight]

\* selectWeightedRandom: the items the draw can return.  random is in
\* [0, totalWeight); the loop returns the first i with random - (w1+..+wi) <= 0:
\* item 1 when random = 0, and any later item of positive weight.
\* {} stands for the throw on an empty array.
selectWeightedRandom(items, weights) ==
  IF Len(items) = 0 THEN {}
  ELSE IF Len(items) = 1 THEN {items[1]}
  ELSE {items[i] : i \in {j \in 1..Len(items) : j = 1 \/ weights[j] > 0}}

\* the tiers of fallback 1: [Math.max(1, tier - 1), Math.min(6, tier + 1)]
adjacentTiers(tier) == {Max2(1, tier - 1), IF tier + 1 <= 6 THEN tier + 1 ELSE 6}

\* faults of selectGuaranteedCard: a last fallback to any card of the
\* catalog; and a chain that skips the adjacent tiers
selectGuaranteedCardAnyPokemon(pokemonId, tier) ==
  LET cards == {c \in catalog : c.pokemonId = pokemonId /\ c.tier = tier}
      fallbackCards1 ==
        {c \in catalog : c.pokemonId = pokemonId /\ c.tier \in adjacentTiers(tier)}
      fallbackCards2 == {c \in catalog : c.pokemonId = pokemonId}
  IN IF cards # {} THEN cards
     ELSE IF fallbackCards1 # {} THEN fallbackCards1
     ELSE IF fallbackCards2 # {} THEN fallbackCards2
     ELSE catalog

selectGuaranteedCardSkipAdjacent(pokemonId, tier) ==
  LET cards == {c \in catalog : c.pokemonId = pokemonId /\ c.tier = tier}
      fallbackCards2 == {c \in catalog : c.pokemonId = pokemonId}
  IN IF cards # {} THEN cards ELSE fallbackCards2

\* selectGuaranteedCard: the cards it can return; {} stands for null
selectGuaranteedCard(pokemonId, tier) ==
  LET cards == {c \in catalog : c.pokemonId = pokemonId /\ c.tier = tier}
      fallbackCards1 ==
        {c \in catalog : c.pokemonId = pokemonId /\ c.tier \in adjacentTiers(tier)}
      fallbackCards2 == {c \in catalog : c.pokemonId = pokemonId}
  IN IF cards = {}
       THEN IF fallbackCards1 # {}
              THEN selectWeightedRandom(SeqById(fallbackCards1),
                                        itemWeights(SeqById(fallbackCards1)))
              ELSE IF fallbackCards2 # {}
                THEN selectWeightedRandom(SeqById(fallbackCards2),
                                          itemWeights(SeqById(fallbackCards2)))
                ELSE {}
       ELSE selectWeightedRandom(SeqById(cards), itemWeights(SeqById(cards)))

\* the weights selectRandomCard hands to the draw: `card.isCeiling ?
\* card.weight * ceilingWeightMultiplier : card.weight`, in tenths
weightedCards(cards, ceilingWeightMultiplier) ==
  [i \in 1..Len(cards) |->
     IF cards[i].isCeiling
       THEN cards[i].weight * ceilingWeightMultiplier
       ELSE cards[i].weight * 10]

\* fault of selectRandomCard: excludeIds ignored
selectRandomCardNoExclude(tier, ceilingWeightMultiplier, guaranteeCeiling, excludeIds) ==
  {c \in catalog : c.tier = tier}

\* fault of selectRandomCard: guaranteeCeiling ignored
selectRandomCardNoHardPity(tier, ceilingWeightMultiplier, guaranteeCeiling, excludeIds) ==
  {c \in catalog : c.tier = tier /\ c.id \notin excludeIds}

\* selectRandomCard: the cards it can return; {} stands for the throw
\* 'No cards available for tier'.  Weights are in tenths.
selectRandomCard(tier, ceilingWeightMultiplier, guaranteeCeiling, excludeIds) ==
  LET ceilingCards ==
        {c \in catalog : c.tier = tier /\ c.isCeiling /\ c.id \notin excludeIds}
      cards == SeqById({c \in catalog : c.tier = tier /\ c.id \notin excludeIds})
  IN IF guaranteeCeiling /\ ceilingCards # {}
       THEN ceilingCards
       ELSE selectWeightedRandom(cards, weightedCards(cards, ceilingWeightMultiplier))

\* fault of fallbackCard: findFirst that excludes the guaranteed card only
fallbackCardOnlyGuaranteed(excludeIds, guaranteedCard) ==
  LET others == {c \in catalog : c.id # guaranteedCard.id}
  IN IF others # {} THEN others ELSE {guaranteedCard}

\* the catch block of a random slot: prisma.card.findFirst outside the chosen
\* ids (no orderBy: any such row), else the guaranteed card
fallbackCard(excludeIds, guaranteedCard) ==
  LET others == {c \in catalog : c.id \notin excludeIds}
  IN IF others # {} THEN others ELSE {guaranteedCard}

\* fault of randomSlot: no try/catch, the throw of selectRandomCard propagates
randomSlotNoCatch(tier, mods, excludeIds, guaranteedCard) ==
  selectRandomCard(tier, mods.ceilingWeightMultiplier, mods.guaranteeCeiling, excludeIds)

\* one try/catch of generateCardOffers: the cards a random slot can hold
randomSlot(tier, mods, excludeIds, guaranteedCard) ==
  LET drawn == selectRandomCard(tier, mods.ceilingWeightMultiplier,
                                mods.guaranteeCeiling, excludeIds)
  IN IF drawn # {} THEN drawn ELSE fallbackCard(excludeIds, guaranteedCard)

\* fault of effectiveTier: a boost of two tiers
effectiveTierTwoSteps(tier, pityModifiers) ==
  IF pityModifiers.tierBoost /\ tier > 1 THEN Max2(1, tier - 2) ELSE tier

\* `let effectiveTier = tier` and the tier boost applied to it
effectiveTier(tier, pityModifiers) ==
  IF pityModifiers.tierBoost /\ tier > 1 THEN Max2(1, tier - 1) ELSE tier

\* generateCardOffers after its getPityTracker call: every outcome the
\* selection can have on pityState, a CardOffer or a thrown error
cardOffers(pityState, tier, guaranteedPokemonId, coin) ==
  LET pityModifiers == calculatePityModifiers(pityState, coin)
      result == [status |-> "ok", tier |-> tier, pokemonId |-> guaranteedPokemonId,
                 effectiveTier |-> effectiveTier(tier, pityModifiers),
                 tierBoost |-> pityModifiers.tierBoost,
                 hardPity |-> pityModifiers.guaranteeCeiling, cards |-> <<>>]
      failed == [result EXCEPT !.status = "error"]
      guaranteed == selectGuaranteedCard(guaranteedPokemonId, result.effectiveTier)
      slot1(guaranteedCard) ==
        randomSlot(result.effectiveTier, pityModifiers, {guaranteedCard.id}, guaranteedCard)
      slot2(guaranteedCard, randomCard1) ==
        randomSlot(result.effectiveTier, pityModifiers,
                   {guaranteedCard.id, randomCard1.id}, guaranteedCard)
  IN IF guaranteed = {} THEN {failed}
     ELSE UNION {
       IF slot1(guaranteedCard) = {} THEN {failed}
       ELSE UNION {
         IF slot2(guaranteedCard, randomCard1) = {} THEN {failed}
         ELSE {[result EXCEPT !.cards = <<guaranteedCard, randomCard1, randomCard2>>] :
                 randomCard2 \in slot2(guaranteedCard, randomCard1)}
         : randomCard1 \in slot1(guaranteedCard)}
       : guaranteedCard \in guaranteed}

\* generateCardOffers(userId, tier, guaranteedPokemonId).  The catalog is
\* read-only and no other request of the user runs here, so the call is one
\* step; getPityTracker creates the user's row when there is none.
generateCardOffers(tier, guaranteedPokemonId, coin) ==
  /\ offer.status = "none"
  /\ LET pityState == IF pityTracker = {} THEN ZeroTracker
                      ELSE CHOOSE row \in pityTracker : TRUE
     IN /\ pityTracker' = IF pityTracker = {} THEN {ZeroTracker} ELSE pityTracker
        /\ runOK' = IF pityTracker = {} THEN TRUE ELSE runOK
        /\ offer' \in cardOffers(pityState, tier, guaranteedPokemonId, coin)
  /\ UNCHANGED <<req, clock, run6, catalog>>
  /\ UNCHANGED logicVars
  /\ UNCHANGED gameVars

\* ------------------------------------------------------------ wordle logic
\* (src/services/wordleLogic.ts)

\* `null` of a nullable column
Null == "null"

\* the compared attributes of Pokemon rows: three type names, two values of
\* each other attribute
Types == {"Fire", "Water", "Grass"}
Attributes ==
  [type1 : Types, type2 : Types \cup {Null}, evolutionStage : {1, 2},
   fullyEvolved : BOOLEAN, color : {"Red", "Blue"}, generation : {1, 2}]

\* fault of compareTypes: no 'n/a' for a mono-typed answer
compareTypesNoNA(guessType1, guessType2, answerType1, answerType2, position) ==
  LET guessType == IF position = 1 THEN guessType1 ELSE guessType2
      answerType == IF position = 1 THEN answerType1 ELSE answerType2
  IN IF position = 2 /\ guessType = Null THEN "wrong"
     ELSE IF guessType = answerType THEN "correct"
     ELSE IF position = 1 /\ guessType = answerType2 THEN "partial"
     ELSE IF position # 1 /\ guessType = answerType1 THEN "partial"
     ELSE "wrong"

\* fault of compareTypes: a type found in either slot of the answer is 'partial'
compareTypesAnySlot(guessType1, guessType2, answerType1, answerType2, position) ==
  LET guessType == IF position = 1 THEN guessType1 ELSE guessType2
      answerType == IF position = 1 THEN answerType1 ELSE answerType2
  IN IF position = 2 /\ answerType2 = Null THEN "n/a"
     ELSE IF position = 2 /\ guessType = Null THEN "wrong"
     ELSE IF guessType \in {answerType1, answerType2} THEN "partial"
     ELSE "wrong"

compareTypes(guessType1, guessType2, answerType1, answerType2, position) ==
  LET guessType == IF position = 1 THEN guessType1 ELSE guessType2
      answerType == IF position = 1 THEN answerType1 ELSE answerType2
  IN IF position = 2 /\ answerType2 = Null THEN "n/a"
     ELSE IF position = 2 /\ guessType = Null THEN "wrong"
     ELSE IF guessType = answerType THEN "correct"
     ELSE IF position = 1 /\ guessType = answerType2 THEN "partial"
     ELSE IF position # 1 /\ guessType = answerType1 THEN "partial"
     ELSE "wrong"

\* fault of compareExact: a mismatch reported as 'partial'
compareExactPartial(guessValue, answerValue) ==
  IF guessValue = answerValue THEN "correct" ELSE "partial"

compareExact(guessValue, answerValue) ==
  IF guessValue = answerValue THEN "correct" ELSE "wrong"

generateFeedback(guess, answer) ==
  [type1 |-> compareTypes(guess.type1, guess.type2, answer.type1, answer.type2, 1),
   type2 |-> compareTypes(guess.type1, guess.type2, answer.type1, answer.type2, 2),
   evolutionStage |-> compareExact(guess.evolutionStage, answer.evolutionStage),
   fullyEvolved |-> compareExact(guess.fullyEvolved, answer.fullyEvolved),
   color |-> compareExact(guess.color, answer.color),
   generation |-> compareExact(guess.generation, answer.generation)]

Min2(a, b) == IF a <= b THEN a ELSE b

calculateTier(guessesUsed) == Max2(1, Min2(6, guessesUsed))

\* ------------------------------------------------------------- tier tables
\* (TIER_RARITY_MAP and its lookups)

TIER_RARITY_MAP ==
  [tier \in Tiers |->
     CASE tier = 1 -> <<"Illustration Rare", "Special Illustration Rare", "Immersive",
                        "Shiny Rare", "Shiny Super Rare", "Ultra Rare">>
       [] tier = 2 -> <<"Double Rare", "Illustration Rare", "Super Rare",
                        "Special Illustration Rare", "Ultra Rare">>
       [] tier = 3 -> <<"Rare", "Double Rare", "Illustration Rare", "Super Rare">>
       [] tier = 4 -> <<"Uncommon", "Rare", "Double Rare", "Illustration Rare">>
       [] tier = 5 -> <<"Common", "Uncommon", "Rare", "Double Rare">>
       [] tier = 6 -> <<"Common", "Uncommon", "Rare">>]

\* type CardRarity
CardRarity ==
  {"Common", "Uncommon", "Rare", "Double Rare", "Illustration Rare", "Super Rare",
   "Special Illustration Rare", "Immersive", "Shiny Rare", "Shiny Super Rare",
   "Ultra Rare"}

\* the rarity strings the lookups are applied to: the lookups take any
\* string, and the README lists 'Hyper Rare' as a twelfth rarity
RarityNames == CardRarity \cup {"Hyper Rare"}

getRaritiesForTier(tier) ==
  IF tier \in DOMAIN TIER_RARITY_MAP THEN TIER_RARITY_MAP[tier] ELSE <<>>

isFloorCard(rarity, tier) ==
  LET raritiesInTier == getRaritiesForTier(tier)
  IN IF Len(raritiesInTier) = 0 THEN FALSE
     ELSE raritiesInTier[1] = rarity

\* fault of isCeilingCard: the floor rarity taken for the ceiling
isCeilingCardFirst(rarity, tier) ==
  LET raritiesInTier == getRaritiesForTier(tier)
  IN IF Len(raritiesInTier) = 0 THEN FALSE
     ELSE raritiesInTier[1] = rarity

isCeilingCard(rarity, tier) ==
  LET raritiesInTier == getRaritiesForTier(tier)
  IN IF Len(raritiesInTier) = 0 THEN FALSE
     ELSE raritiesInTier[Len(raritiesInTier)] = rarity

RARITY_TO_TIERS ==
  [rarity \in CardRarity |->
     CASE rarity = "Common" -> <<5, 6>>
       [] rarity = "Uncommon" -> <<4, 5, 6>>
       [] rarity = "Rare" -> <<3, 4, 5, 6>>
       [] rarity = "Double Rare" -> <<2, 3, 4, 5>>
       [] rarity = "Illustration Rare" -> <<1, 2, 3, 4>>
       [] rarity = "Super Rare" -> <<2, 3>>
       [] rarity = "Special Illustration Rare" -> <<1, 2>>
       [] rarity = "Immersive" -> <<1>>
       [] rarity = "Shiny Rare" -> <<1>>
       [] rarity = "Shiny Super Rare" -> <<1>>
       [] rarity = "Ultra Rare" -> <<1, 2>>]

RARITY_WEIGHTS ==
  [rarity \in CardRarity |->
     CASE rarity = "Common" -> 50
       [] rarity = "Uncommon" -> 30
       [] rarity = "Rare" -> 15
       [] rarity = "Double Rare" -> 8
       [] rarity = "Illustration Rare" -> 5
       [] rarity = "Super Rare" -> 3
       [] rarity = "Special Illustration Rare" -> 2
       [] rarity = "Immersive" -> 1
       [] rarity = "Shiny Rare" -> 1
       [] rarity = "Shiny Super Rare" -> 1
       [] rarity = "Ultra Rare" -> 2]

getTiersForRarity(rarity) ==
  IF rarity \in DOMAIN RARITY_TO_TIERS THEN RARITY_TO_TIERS[rarity] ELSE <<>>

getWeightForRarity(rarity) ==
  IF rarity \in DOMAIN RARITY_WEIGHTS THEN RARITY_WEIGHTS[rarity] ELSE 1

\* the elements of an array
Elements(array) == {array[i] : i \in 1..Len(array)}

\* fault of assignTierToCard: the numerically highest eligible tier
assignTierToCardWorst(rarity) ==
  LET tiers == getTiersForRarity(rarity)
  IN IF Len(tiers) = 0 THEN 6
     ELSE CHOOSE t \in Elements(tiers) : \A u \in Elements(tiers) : t >= u

\* Math.min(...tiers), 6 for a rarity without tiers
assignTierToCard(rarity) ==
  LET tiers == getTiersForRarity(rarity)
  IN IF Len(tiers) = 0 THEN 6
     ELSE CHOOSE t \in Elements(tiers) : \A u \in Elements(tiers) : t <= u

\* ------------------------------------------------- calls of pure functions
\* bound of the guess counts calculateTier is applied to
MaxGuessCount == 20

NoCall == [fn |-> "none"]

\* bound of the counters calculatePityModifiers is applied to
MaxPityCounter == 11

\* PityTracker rows with any counters up to the bound
PityStates ==
  {[ZeroTracker EXCEPT !.consecutiveTier6 = c6, !.gamesWithoutCeiling = g,
                       !.hardPityCounter = h] :
     c6 \in 0..MaxPityCounter, g \in 0..MaxPityCounter, h \in 0..MaxPityCounter}

\* longest list a draw is applied to
MaxItems == 3

\* weights of the items drawn from: none, the Card.weight DEFAULT, a larger one
ItemWeights == {0, 1, 2}

\* lists of rows with ids 1..n in query order
ItemLists ==
  UNION {{[i \in 1..n |-> [id |-> i, weight |-> w[i], isCeiling |-> c[i]]] :
            w \in [1..n -> ItemWeights], c \in [1..n -> BOOLEAN]} : n \in 1..MaxItems}

\* the values of ceilingWeightMultiplier, in tenths
Multipliers == {10, 13, 15, 20, 25}

\* tiers the lookups are applied to: 1..6 and one value on either side
TableTiers == 0..7

LogicInputs ==
  {[fn |-> "generateFeedback", guess |-> g, answer |-> a] :
     g \in Attributes, a \in Attributes}
  \cup {[fn |-> "calculateTier", guessesUsed |-> n] :
          n \in (0 - MaxGuessCount)..MaxGuessCount}
  \cup {[fn |-> f, rarity |-> r, tier |-> t] :
          f \in {"isFloorCard", "isCeilingCard"}, r \in RarityNames, t \in TableTiers}
  \cup {[fn |-> "calculatePityModifiers", pity |-> pity, coin |-> coin] :
          pity \in PityStates, coin \in BOOLEAN}
  \cup {[fn |-> f, rarity |-> r] :
          f \in {"getTiersForRarity", "assignTierToCard", "getWeightForRarity"},
          r \in RarityNames}
  \cup {[fn |-> "selectWeightedRandom", items |-> items, customWeights |-> FALSE,
          ceilingWeightMultiplier |-> 10] : items \in ItemLists}
  \cup {[fn |-> "selectWeightedRandom", items |-> items, customWeights |-> TRUE,
          ceilingWeightMultiplier |-> m] : items \in ItemLists, m \in Multipliers}

generateFeedbackCall ==
  /\ input.fn = "generateFeedback" /\ output = NoCall
  /\ output' = [fn |-> input.fn, value |-> generateFeedback(input.guess, input.answer)]
  /\ UNCHANGED <<pityVars, offerVars, input>>
  /\ UNCHANGED gameVars

calculateTierCall ==
  /\ input.fn = "calculateTier" /\ output = NoCall
  /\ output' = [fn |-> input.fn, value |-> calculateTier(input.guessesUsed)]
  /\ UNCHANGED <<pityVars, offerVars, input>>
  /\ UNCHANGED gameVars

isFloorCardCall ==
  /\ input.fn = "isFloorCard" /\ output = NoCall
  /\ output' = [fn |-> input.fn, value |-> isFloorCard(input.rarity, input.tier)]
  /\ UNCHANGED <<pityVars, offerVars, input>>
  /\ UNCHANGED gameVars

isCeilingCardCall ==
  /\ input.fn = "isCeilingCard" /\ output = NoCall
  /\ output' = [fn |-> input.fn, value |-> isCeilingCard(input.rarity, input.tier)]
  /\ UNCHANGED <<pityVars, offerVars, input>>
  /\ UNCHANGED gameVars

\* coin: the outcome of `Math.random() < 0.2`
calculatePityModifiersCall ==
  /\ input.fn = "calculatePityModifiers" /\ output = NoCall
  /\ output' = [fn |-> input.fn, value |-> calculatePityModifiers(input.pity, input.coin)]
  /\ UNCHANGED <<pityVars, offerVars, input>>
  /\ UNCHANGED gameVars

\* selectWeightedRandom as selectGuaranteedCard calls it (no customWeights)
\* and as selectRandomCard calls it (customWeights from weightedCards)
selectWeightedRandomCall ==
  /\ input.fn = "selectWeightedRandom" /\ output = NoCall
  /\ output' = [fn |-> input.fn,
                value |-> IF input.customWeights
                            THEN selectWeightedRandom(input.items,
                                   weightedCards(input.items, input.ceilingWeightMultiplier))
                            ELSE selectWeightedRandom(input.items, itemWeights(input.items))]
  /\ UNCHANGED <<pityVars, offerVars, input>>
  /\ UNCHANGED gameVars

getTiersForRarityCall ==
  /\ input.fn = "getTiersForRarity" /\ output = NoCall
  /\ output' = [fn |-> input.fn, value |-> getTiersForRarity(input.rarity)]
  /\ UNCHANGED <<pityVars, offerVars, input>>
  /\ UNCHANGED gameVars

assignTierToCardCall ==
  /\ input.fn = "assignTierToCard" /\ output = NoCall
  /\ output' = [fn |-> input.fn, value |-> assignTierToCard(input.rarity)]
  /\ UNCHANGED <<pityVars, offerVars, input>>
  /\ UNCHANGED gameVars

getWeightForRarityCall ==
  /\ input.fn = "getWeightForRarity" /\ output = NoCall
  /\ output' = [fn |-> input.fn, value |-> getWeightForRarity(input.rarity)]
  /\ UNCHANGED <<pityVars, offerVars, input>>
  /\ UNCHANGED gameVars

\* -------------------------------------------------------------- game routes
\* (routes/games: POST /:id/guess, GET /:id, POST /:id/capture)
\* One game of the one user is played by concurrent clients.  Every `await`
\* on a table that gameplay writes is a step; reads of the tables Pokemon and
\* Card, which gameplay never writes, are taken together with the step that
\* follows them.

\* bound of the requests issued in one behaviour
MaxRequests == 3

Clients == {1, 2}

\* the game's answer (Game.pokemonId)
AnswerId == 1

\* table Pokemon: the answer, an entity with the answer's six compared
\* attributes, and an entity that differs in each of them
Pokemon ==
  [id \in {1, 2, 3} |->
     IF id = 3
       THEN [id |-> id, type1 |-> "Water", type2 |-> "Fire", evolutionStage |-> 2,
             fullyEvolved |-> TRUE, color |-> "Blue", generation |-> 2]
       ELSE [id |-> id, type1 |-> "Fire", type2 |-> Null, evolutionStage |-> 1,
             fullyEvolved |-> FALSE, color |-> "Red", generation |-> 1]]

\* catalogs the game is played on: no card at all; two cards of the answer
\* (tier 5 ceiling, tier 6) and a tier-6 ceiling card of the other entity
GameCatalogs == {{}, {Card(1, 9), Card(2, 10), Card(3, 23)}}

\* a catalog with a fourth card: a tier-6 card of the other entity
FourCards == {Card(1, 9), Card(2, 10), Card(3, 23), Card(4, 22)}

\* card ids a capture request names: the catalog's and one of no card
CaptureCardIds == 1..4

\* fault of isGuessCorrect: a guess wins when every verdict is 'correct' or 'n/a'
isGuessCorrectByAttributes(guessPokemon, answerPokemon) ==
  LET feedback == generateFeedback(guessPokemon, answerPokemon)
  IN \A f \in DOMAIN feedback : feedback[f] \in {"correct", "n/a"}

isGuessCorrect(guessPokemon, answerPokemon) == guessPokemon.id = answerPokemon.id

\* a Game row as POST /games creates it; the nullable columns guessesUsed and
\* tier hold 0 for null, offeredCardIds holds <<>> for null
NewGame ==
  [completed |-> FALSE, won |-> FALSE, guessesUsed |-> 0, tier |-> 0,
   offeredCardIds |-> <<>>]

\* a Guess row; Guess.id is SERIAL
GuessRow(id, guessNum, pokemonId) ==
  [id |-> id, guessNum |-> guessNum, pokemonId |-> pokemonId,
   feedback |-> generateFeedback(Pokemon[pokemonId], Pokemon[AnswerId])]

IdleClient ==
  [pc |-> "idle", op |-> "none", pokemonId |-> 0, cardId |-> 0, guessNum |-> 0,
   correct |-> FALSE, tier |-> 0, offeredCardIds |-> <<>>, isCeiling |-> FALSE,
   pityState |-> ZeroTracker, failed |-> FALSE]

\* no POST /games request yet
NoGameStarted ==
  /\ games = {}
  /\ responses = <<>>

NoGamePlayed ==
  /\ game = NewGame
  /\ guesses = {}
  /\ userCards = {}
  /\ pokedex = {}
  /\ client = [p \in Clients |-> IdleClient]
  /\ requests = 0
  /\ pityWrites = 0
  /\ pokemonSpawn = {}
  /\ NoGameStarted

gameFrame == UNCHANGED <<pityVars, offer, catalog, logicVars, startVars>>

\* POST /:id/guess up to the checks on the game read by game.findUnique
guessFind(p, pokemonId) ==
  /\ client[p].pc = "idle"
  /\ requests < MaxRequests
  /\ requests' = requests + 1
  /\ IF game.completed \/ Cardinality(guesses) >= 6
       THEN UNCHANGED client
       ELSE client' = [client EXCEPT ![p] =
              [IdleClient EXCEPT !.pc = "guess.create", !.op = "guess",
                 !.pokemonId = pokemonId,
                 !.correct = isGuessCorrect(Pokemon[pokemonId], Pokemon[AnswerId]),
                 !.guessNum = Cardinality(guesses) + 1]]
  /\ UNCHANGED <<game, guesses, userCards, pokedex, pityWrites>>
  /\ gameFrame

\* POST /:id/guess: prisma.guess.create, then the test for the final guess
guessCreate(p) ==
  /\ client[p].pc = "guess.create"
  /\ guesses' = guesses \cup
       {GuessRow(Cardinality(guesses) + 1, client[p].guessNum, client[p].pokemonId)}
  /\ client' = [client EXCEPT ![p] =
       IF client[p].correct \/ client[p].guessNum >= 6
         THEN [client[p] EXCEPT !.pc = "getPityTracker",
                                !.tier = calculateTier(client[p].guessNum)]
         ELSE IdleClient]
  /\ UNCHANGED <<game, userCards, pokedex, requests, pityWrites>>
  /\ gameFrame

\* generateCardOffers: getPityTracker, prisma.pityTracker.findUnique
offersPityFind(p) ==
  /\ client[p].pc = "getPityTracker"
  /\ IF pityTracker = {}
       THEN client' = [client EXCEPT ![p].pc = "pityTracker.create"]
       ELSE \E row \in pityTracker :
              client' = [client EXCEPT ![p].pc = "offers", ![p].pityState = row]
  /\ UNCHANGED <<game, guesses, userCards, pokedex, requests, pityWrites>>
  /\ gameFrame

\* fault of offersPityCreate: the game is counted when its offers are generated
offersPityCreateCounted(p) ==
  /\ client[p].pc = "pityTracker.create"
  /\ IF pityTracker = {}
       THEN /\ pityTracker' = {[ZeroTracker EXCEPT !.totalGames = 1]}
            /\ run6' = 0
            /\ runOK' = TRUE
            /\ client' = [client EXCEPT ![p].pc = "offers", ![p].pityState = ZeroTracker]
       ELSE /\ client' = [client EXCEPT ![p].pc = "offers", ![p].failed = TRUE]
            /\ UNCHANGED <<pityTracker, run6, runOK>>
  /\ UNCHANGED <<game, guesses, userCards, pokedex, requests, pityWrites>>
  /\ UNCHANGED <<req, clock, offer, catalog, logicVars, startVars>>

\* generateCardOffers: getPityTracker, prisma.pityTracker.create; it throws
\* on PityTracker_userId_key when another request created the row meanwhile
offersPityCreate(p) ==
  /\ client[p].pc = "pityTracker.create"
  /\ IF pityTracker = {}
       THEN /\ pityTracker' = {ZeroTracker}
            /\ run6' = 0
            /\ runOK' = TRUE
            /\ client' = [client EXCEPT ![p].pc = "offers", ![p].pityState = ZeroTracker]
       ELSE /\ client' = [client EXCEPT ![p].pc = "offers", ![p].failed = TRUE]
            /\ UNCHANGED <<pityTracker, run6, runOK>>
  /\ UNCHANGED <<game, guesses, userCards, pokedex, requests, pityWrites>>
  /\ UNCHANGED <<req, clock, offer, catalog, logicVars, startVars>>

\* what generateCardOffers returns or throws to the handler of client p
offersOutcomes(p, coin) ==
  IF client[p].failed
    THEN {[NoOffer EXCEPT !.status = "error"]}
    ELSE cardOffers(client[p].pityState, client[p].tier, AnswerId, coin)

RECURSIVE cardIds(_)
cardIds(cards) ==
  IF cards = <<>> THEN <<>> ELSE <<Head(cards).id>> \o cardIds(Tail(cards))

\* POST /:id/guess, final guess: the card selection of generateCardOffers and
\* prisma.game.update; without offeredCardIds when generateCardOffers threw
guessGameUpdate(p, coin) ==
  /\ client[p].pc = "offers"
  /\ client[p].op = "guess"
  /\ \E cardOffer \in offersOutcomes(p, coin) :
       LET completion == [completed |-> TRUE, won |-> client[p].correct,
                          guessesUsed |-> client[p].guessNum, tier |-> client[p].tier]
       IN game' = IF cardOffer.status = "ok"
                    THEN ApplyUpdate(game, completion @@
                           [offeredCardIds |-> cardIds(cardOffer.cards)])
                    ELSE ApplyUpdate(game, completion)
  /\ client' = [client EXCEPT ![p] = IdleClient]
  /\ UNCHANGED <<guesses, userCards, pokedex, requests, pityWrites>>
  /\ gameFrame

\* GET /:id up to the test of game.completed
getFind(p) ==
  /\ client[p].pc = "idle"
  /\ requests < MaxRequests
  /\ requests' = requests + 1
  /\ IF ~game.completed
       THEN UNCHANGED client
       ELSE client' = [client EXCEPT ![p] =
              [IdleClient EXCEPT !.pc = "userCard.findUnique", !.op = "get",
                 !.offeredCardIds = game.offeredCardIds, !.tier = game.tier,
                 !.guessNum = game.guessesUsed]]
  /\ UNCHANGED <<game, guesses, userCards, pokedex, pityWrites>>
  /\ gameFrame

\* GET /:id: prisma.userCard.findUnique; offers are generated again when the
\* game read has none and no card is captured
getCapturedFind(p) ==
  /\ client[p].pc = "userCard.findUnique"
  /\ client[p].op = "get"
  /\ client' = [client EXCEPT ![p] =
       IF client[p].offeredCardIds = <<>> /\ userCards = {}
         THEN [client[p] EXCEPT !.pc = "getPityTracker",
                 !.tier = IF client[p].tier # 0 THEN client[p].tier
                          ELSE calculateTier(IF client[p].guessNum # 0
                                               THEN client[p].guessNum ELSE 6)]
         ELSE IdleClient]
  /\ UNCHANGED <<game, guesses, userCards, pokedex, requests, pityWrites>>
  /\ gameFrame

\* GET /:id: the card selection of generateCardOffers and prisma.game.update;
\* an error of generateCardOffers is caught and nothing is written
getGameUpdate(p, coin) ==
  /\ client[p].pc = "offers"
  /\ client[p].op = "get"
  /\ \E cardOffer \in offersOutcomes(p, coin) :
       game' = IF cardOffer.status = "ok"
                 THEN ApplyUpdate(game, [offeredCardIds |-> cardIds(cardOffer.cards),
                                         tier |-> client[p].tier])
                 ELSE game
  /\ client' = [client EXCEPT ![p] = IdleClient]
  /\ UNCHANGED <<guesses, userCards, pokedex, requests, pityWrites>>
  /\ gameFrame

\* POST /:id/capture up to the test of game.completed
captureFind(p, cardId) ==
  /\ client[p].pc = "idle"
  /\ requests < MaxRequests
  /\ requests' = requests + 1
  /\ IF ~game.completed
       THEN UNCHANGED client
       ELSE client' = [client EXCEPT ![p] =
              [IdleClient EXCEPT !.pc = "userCard.findUnique", !.op = "capture",
                 !.cardId = cardId, !.offeredCardIds = game.offeredCardIds,
                 !.tier = game.tier]]
  /\ UNCHANGED <<game, guesses, userCards, pokedex, pityWrites>>
  /\ gameFrame

\* fault of captureExisting: the requested card not looked up in the offered ids
captureExistingAnyCard(p) ==
  /\ client[p].pc = "userCard.findUnique"
  /\ client[p].op = "capture"
  /\ LET found == {c \in catalog : c.id = client[p].cardId}
     IN client' = [client EXCEPT ![p] =
          IF userCards # {} \/ found = {}
            THEN IdleClient
            ELSE [client[p] EXCEPT !.pc = "userCard.create",
                    !.isCeiling = (CHOOSE c \in found : TRUE).isCeiling]]
  /\ UNCHANGED <<game, guesses, userCards, pokedex, requests, pityWrites>>
  /\ gameFrame

\* fault of captureExisting: pulledCeiling taken from the offered set
captureExistingAnyOffered(p) ==
  /\ client[p].pc = "userCard.findUnique"
  /\ client[p].op = "capture"
  /\ LET offered == {client[p].offeredCardIds[i] : i \in DOMAIN client[p].offeredCardIds}
         found == {c \in catalog : c.id = client[p].cardId}
     IN client' = [client EXCEPT ![p] =
          IF userCards # {} \/ client[p].cardId \notin offered \/ found = {}
            THEN IdleClient
            ELSE [client[p] EXCEPT !.pc = "userCard.create",
                    !.isCeiling = \E c \in catalog : c.id \in offered /\ c.isCeiling]]
  /\ UNCHANGED <<game, guesses, userCards, pokedex, requests, pityWrites>>
  /\ gameFrame

\* POST /:id/capture: prisma.userCard.findUnique, the test of the offered
\* ids of the game read, prisma.card.findUnique
captureExisting(p) ==
  /\ client[p].pc = "userCard.findUnique"
  /\ client[p].op = "capture"
  /\ LET offered == {client[p].offeredCardIds[i] : i \in DOMAIN client[p].offeredCardIds}
         found == {c \in catalog : c.id = client[p].cardId}
     IN client' = [client EXCEPT ![p] =
          IF userCards # {} \/ client[p].cardId \notin offered \/ found = {}
            THEN IdleClient
            ELSE [client[p] EXCEPT !.pc = "userCard.create",
                    !.isCeiling = (CHOOSE c \in found : TRUE).isCeiling]]
  /\ UNCHANGED <<game, guesses, userCards, pokedex, requests, pityWrites>>
  /\ gameFrame

\* fault of userCardCreate: no unique index on UserCard.gameId
userCardCreateNoUnique(p) ==
  /\ client[p].pc = "userCard.create"
  /\ userCards' = userCards \cup {[id |-> Cardinality(userCards) + 1,
                                    cardId |-> client[p].cardId]}
  /\ client' = [client EXCEPT ![p].pc = "pokedexEntry.upsert"]
  /\ UNCHANGED <<game, guesses, pokedex, requests, pityWrites>>
  /\ gameFrame

\* POST /:id/capture: prisma.userCard.create; it throws on UserCard_gameId_key
\* when the game has a capture record, and the request ends
userCardCreate(p) ==
  /\ client[p].pc = "userCard.create"
  /\ IF userCards # {}
       THEN /\ client' = [client EXCEPT ![p] = IdleClient]
            /\ UNCHANGED userCards
       ELSE /\ userCards' = {[id |-> 1, cardId |-> client[p].cardId]}
            /\ client' = [client EXCEPT ![p].pc = "pokedexEntry.upsert"]
  /\ UNCHANGED <<game, guesses, pokedex, requests, pityWrites>>
  /\ gameFrame

\* POST /:id/capture: prisma.pokedexEntry.upsert
pokedexUpsert(p) ==
  /\ client[p].pc = "pokedexEntry.upsert"
  /\ pokedex' = pokedex \cup {client[p].cardId}
  /\ client' = [client EXCEPT ![p].pc = "updatePityTracker"]
  /\ UNCHANGED <<game, guesses, userCards, requests, pityWrites>>
  /\ gameFrame

\* POST /:id/capture: updatePityTracker(userId, game.tier, card.isCeiling),
\* its getPityTracker read.  The user's row exists: the offers the capture
\* was validated against were generated after getPityTracker created it.
capturePityFind(p) ==
  /\ client[p].pc = "updatePityTracker"
  /\ getPityTrackerFind(p, "update", client[p].tier, client[p].isCeiling, MaxRequests)
  /\ client' = [client EXCEPT ![p].pc = "pityTracker.update"]
  /\ UNCHANGED <<game, guesses, userCards, pokedex, requests, pityWrites, startVars>>

\* POST /:id/capture: the write of updatePityTracker, and the response
capturePityWrite(p) ==
  /\ client[p].pc = "pityTracker.update"
  /\ updatePityTrackerWrite(p)
  /\ client' = [client EXCEPT ![p] = IdleClient]
  /\ pityWrites' = pityWrites + 1
  /\ UNCHANGED <<game, guesses, userCards, pokedex, requests, startVars>>

\* POST /:id/capture: prisma.pokedexEntry.upsert or the read of
\* updatePityTracker throws (time-out, lost connection); the catch block
\* passes the error on and the request ends, nothing is rolled back
capturePersistenceFails(p) ==
  /\ client[p].op = "capture"
  /\ client[p].pc \in {"pokedexEntry.upsert", "updatePityTracker"}
  /\ client' = [client EXCEPT ![p] = IdleClient]
  /\ UNCHANGED <<game, guesses, userCards, pokedex, requests, pityWrites>>
  /\ gameFrame

\* ------------------------------------------------------------- POST /games
\* (src/routes/games.ts, selectRandomPokemon of src/services/cardGenerator.ts)

\* POST /games requests served
MaxStarts == 2

\* ids of the Biome rows; a request may name one more
BiomeIds == {1, 2}
RequestBiomeIds == BiomeIds \cup {3}

\* `['day', 'night']`, and the values PokemonSpawn.timeOfDay holds
TimesOfDay == {"day", "night"}
SpawnTimes == TimesOfDay \cup {"both"}

\* a PokemonSpawn row, spawnWeight at its DEFAULT 1.0
Spawn(id, pokemonId, biomeId, timeOfDay) ==
  [id |-> id, pokemonId |-> pokemonId, biomeId |-> biomeId,
   timeOfDay |-> timeOfDay, spawnWeight |-> 1]

\* PokemonSpawn tables: any rows of either entity in biome 1 at each time
\* of day, and in biome 2 at 'both'; one row at most per
\* PokemonSpawn_pokemonId_biomeId_timeOfDay_key
SpawnRows ==
  {Spawn(1, 1, 1, "day"), Spawn(2, 1, 1, "night"), Spawn(3, 1, 1, "both"),
   Spawn(4, 2, 1, "day"), Spawn(5, 2, 1, "night"), Spawn(6, 2, 1, "both"),
   Spawn(7, 1, 2, "both"), Spawn(8, 2, 2, "both")}
SpawnTables == SUBSET SpawnRows

\* catalogs at the start of a game: cards of no entity, of one, of both
StartCatalogs ==
  {{}, {Card(1, 0)}, {Card(1, 12)}, {Card(1, 0), Card(2, 12)}}

\* `pokemon: { cards: { some: {} } }`
hasCards(pokemonId) == \E c \in catalog : c.pokemonId = pokemonId

\* the weighted loop of selectRandomPokemon over spawns: spawns[i] for the
\* first i with random - (w1+..+wi) <= 0, random in [0, totalWeight), and
\* the last row after the loop
drawSpawn(spawns) ==
  {spawns[i].pokemonId :
     i \in {j \in 1..Len(spawns) :
              j = 1 \/ spawns[j].spawnWeight > 0 \/ j = Len(spawns)}}

\* fault of selectRandomPokemon: the time of day never filtered
selectRandomPokemonAnyTime(biomeId, timeOfDay) ==
  LET any == {s \in pokemonSpawn : s.biomeId = biomeId /\ hasCards(s.pokemonId)}
  IN IF any = {} THEN {} ELSE drawSpawn(SeqById(any))

\* fault of selectRandomPokemon: no second query
selectRandomPokemonNoFallback(biomeId, timeOfDay) ==
  LET timed == {s \in pokemonSpawn :
                  /\ s.biomeId = biomeId
                  /\ s.timeOfDay \in {timeOfDay, "both"}
                  /\ hasCards(s.pokemonId)}
  IN IF timed = {} THEN {} ELSE drawSpawn(SeqById(timed))

\* selectRandomPokemon: the entity ids it can return; {} stands for the
\* throw 'No Pokemon with cards available for biome'
selectRandomPokemon(biomeId, timeOfDay) ==
  LET timed == {s \in pokemonSpawn :
                  /\ s.biomeId = biomeId
                  /\ s.timeOfDay \in {timeOfDay, "both"}
                  /\ hasCards(s.pokemonId)}
      any == {s \in pokemonSpawn : s.biomeId = biomeId /\ hasCards(s.pokemonId)}
      spawns == IF timed = {} THEN any ELSE timed
  IN IF spawns = {} THEN {} ELSE drawSpawn(SeqById(spawns))

\* a served request and its response; gameId 0: no game in the response
Response(status, biomeId, timeOfDay, gameId) ==
  [status |-> status, biomeId |-> biomeId, timeOfDay |-> timeOfDay, gameId |-> gameId]

\* POST /games.  Biome, PokemonSpawn and Card are not written while games
\* are played, so the reads and prisma.game.create are one step.
postGames(biomeId, timeOfDay) ==
  /\ Len(responses) < MaxStarts
  /\ IF timeOfDay \notin TimesOfDay
       THEN /\ responses' = Append(responses, Response(400, biomeId, timeOfDay, 0))
            /\ UNCHANGED games
       ELSE IF biomeId \notin BiomeIds
         THEN /\ responses' = Append(responses, Response(404, biomeId, timeOfDay, 0))
              /\ UNCHANGED games
         ELSE IF selectRandomPokemon(biomeId, timeOfDay) = {}
           THEN /\ responses' = Append(responses, Response(400, biomeId, timeOfDay, 0))
                /\ UNCHANGED games
           ELSE \E pokemonId \in selectRandomPokemon(biomeId, timeOfDay) :
                  LET id == Cardinality(games) + 1
                  IN /\ games' = games \cup
                          {[id |-> id, biomeId |-> biomeId, timeOfDay |-> timeOfDay,
                            pokemonId |-> pokemonId]}
                     /\ responses' = Append(responses, Response(201, biomeId, timeOfDay, id))
  /\ UNCHANGED <<pityVars, offerVars, logicVars, pokemonSpawn>>
  /\ UNCHANGED <<game, guesses, userCards, pokedex, client, requests, pityWrites>>

\* ---------------------------------------------------------- specifications
vars == <<pityTracker, req, clock, run6, runOK, catalog, offer, input, output,
         game, guesses, userCards, pokedex, client, requests, pityWrites,
         pokemonSpawn, games, responses>>

\* concurrent pity transitions of one user
Init ==
  /\ PityInit
  /\ catalog = {}
  /\ offer = NoOffer
  /\ input = NoCall
  /\ output = NoCall
  /\ NoGamePlayed

Next ==
  \/ \E p \in Procs, tier \in Tiers, pulledCeiling \in BOOLEAN :
       getPityTrackerFind(p, "update", tier, pulledCeiling, MaxGames) /\ UNCHANGED gameVars
  \/ \E p \in Procs : getPityTrackerFind(p, "get", 1, FALSE, MaxGames) /\ UNCHANGED gameVars
  \/ \E p \in Procs : getPityTrackerCreate(p) /\ UNCHANGED gameVars
  \/ \E p \in Procs : updatePityTrackerApplied(p)
  \/ resetPityTracker

Spec == Init /\ [][Next]_vars

\* pity transitions one request at a time (resets may still fall between the
\* read and the write of a transition)
NextSeq ==
  \/ \E p \in SeqProcs, tier \in Tiers, pulledCeiling \in BOOLEAN :
       getPityTrackerFind(p, "update", tier, pulledCeiling, MaxSeqGames) /\ UNCHANGED gameVars
  \/ \E p \in SeqProcs : getPityTrackerFind(p, "get", 1, FALSE, MaxSeqGames) /\ UNCHANGED gameVars
  \/ \E p \in SeqProcs : getPityTrackerCreate(p) /\ UNCHANGED gameVars
  \/ \E p \in SeqProcs : updatePityTrackerApplied(p)
  \/ resetPityTracker

SpecSeq == Init /\ [][NextSeq]_vars

\* games played close to hard pity
MaxHardGames == 3

\* concurrent tier-6 transitions of a user who has played eight tier-6 games
\* without a ceiling capture
InitHardPity ==
  /\ pityTracker = {PityAfter(8, 8)}
  /\ req = [p \in Procs |-> Idle]
  /\ clock = 0
  /\ run6 = 0
  /\ runOK = FALSE
  /\ catalog = {}
  /\ offer = NoOffer
  /\ input = NoCall
  /\ output = NoCall
  /\ NoGamePlayed

NextHardPity ==
  \/ \E p \in Procs, pulledCeiling \in BOOLEAN :
       getPityTrackerFind(p, "update", 6, pulledCeiling, MaxHardGames) /\ UNCHANGED gameVars
  \/ \E p \in Procs : updatePityTrackerApplied(p)
  \/ resetPityTracker

SpecHardPity == InitHardPity /\ [][NextHardPity]_vars

\* one generateCardOffers call on any catalog and pity state
InitOffers ==
  /\ pityTracker \in OfferPityTables
  /\ req = [p \in Procs |-> Idle]
  /\ clock = 0
  /\ run6 = 0
  /\ runOK = FALSE
  /\ catalog \in Catalogs
  /\ offer = NoOffer
  /\ input = NoCall
  /\ output = NoCall
  /\ NoGamePlayed

NextOffers ==
  \E tier \in Tiers, guaranteedPokemonId \in AnswerIds, coin \in BOOLEAN :
    generateCardOffers(tier, guaranteedPokemonId, coin)

SpecOffers == InitOffers /\ [][NextOffers]_vars

\* one call of a pure function on any input
InitLogic ==
  /\ PityInit
  /\ catalog = {}
  /\ offer = NoOffer
  /\ input \in LogicInputs
  /\ output = NoCall
  /\ NoGamePlayed

NextLogic ==
  \/ generateFeedbackCall
  \/ calculateTierCall
  \/ isFloorCardCall
  \/ isCeilingCardCall
  \/ calculatePityModifiersCall
  \/ selectWeightedRandomCall
  \/ getTiersForRarityCall
  \/ assignTierToCardCall
  \/ getWeightForRarityCall

SpecLogic == InitLogic /\ [][NextLogic]_vars

\* one game played by concurrent clients; it starts with any number of wrong
\* guesses that leaves the game open (fewer than 6)
PriorGuesses == 0..5

InitGame ==
  /\ PityInit
  /\ catalog \in GameCatalogs
  /\ offer = NoOffer
  /\ input = NoCall
  /\ output = NoCall
  /\ game = NewGame
  /\ \E n \in PriorGuesses : guesses = {GuessRow(i, i, 3) : i \in 1..n}
  /\ userCards = {}
  /\ pokedex = {}
  /\ client = [p \in Clients |-> IdleClient]
  /\ requests = 0
  /\ pityWrites = 0
  /\ pokemonSpawn = {}
  /\ NoGameStarted

NextGame ==
  \/ \E p \in Clients, pokemonId \in DOMAIN Pokemon : guessFind(p, pokemonId)
  \/ \E p \in Clients : guessCreate(p)
  \/ \E p \in Clients : offersPityFind(p)
  \/ \E p \in Clients : offersPityCreate(p)
  \/ \E p \in Clients, coin \in BOOLEAN : guessGameUpdate(p, coin)
  \/ \E p \in Clients : getFind(p)
  \/ \E p \in Clients : getCapturedFind(p)
  \/ \E p \in Clients, coin \in BOOLEAN : getGameUpdate(p, coin)
  \/ \E p \in Clients, cardId \in CaptureCardIds : captureFind(p, cardId)
  \/ \E p \in Clients : captureExisting(p)
  \/ \E p \in Clients : userCardCreate(p)
  \/ \E p \in Clients : pokedexUpsert(p)
  \/ \E p \in Clients : capturePityFind(p)
  \/ \E p \in Clients : capturePityWrite(p)

SpecGame == InitGame /\ [][NextGame]_vars

\* the same game one or two guesses from its sixth, on a catalog with more
\* cards than an offer holds
InitGameFour ==
  /\ PityInit
  /\ catalog = FourCards
  /\ offer = NoOffer
  /\ input = NoCall
  /\ output = NoCall
  /\ game = NewGame
  /\ \E n \in {4, 5} : guesses = {GuessRow(i, i, 3) : i \in 1..n}
  /\ userCards = {}
  /\ pokedex = {}
  /\ client = [p \in Clients |-> IdleClient]
  /\ requests = 0
  /\ pityWrites = 0
  /\ pokemonSpawn = {}
  /\ NoGameStarted

SpecGameFour == InitGameFour /\ [][NextGame]_vars

\* POST /games requests on any spawn table and start catalog
InitStart ==
  /\ PityInit
  /\ catalog \in StartCatalogs
  /\ offer = NoOffer
  /\ input = NoCall
  /\ output = NoCall
  /\ game = NewGame
  /\ guesses = {}
  /\ userCards = {}
  /\ pokedex = {}
  /\ client = [p \in Clients |-> IdleClient]
  /\ requests = 0
  /\ pityWrites = 0
  /\ pokemonSpawn \in SpawnTables
  /\ NoGameStarted

NextStart ==
  \E biomeId \in RequestBiomeIds, timeOfDay \in SpawnTimes : postGames(biomeId, timeOfDay)

SpecStart == InitStart /\ [][NextStart]_vars

\* ------------------------------------------------------------------ claims
\* the write of request p's pity transition happens in this step
TransitionWrites(p) == req[p].pc = "update" /\ req'[p].pc = "idle"

\* C1: in every reachable state, under any interleaving of pity transitions
\* and resets, at most one of consecutiveTier6 and consecutiveTier5 is nonzero.
C1_ExclusiveStreaks ==
  \A row \in pityTracker :
    ~(row.consecutiveTier6 # 0 /\ row.consecutiveTier5 # 0)

\* a tier-6 streak is stored while another request still holds an older read
C1_Witness ==
  \E row \in pityTracker :
    /\ row.consecutiveTier6 > 0
    /\ \E p \in Procs : req[p].pc = "update" /\ req[p].tracker # row

\* C2 as stated: consecutiveTier6 > 0 exactly when consecutiveTier5 = 0, and
\* consecutiveTier5 > 0 exactly when consecutiveTier6 = 0.
C2_Original ==
  \A row \in pityTracker :
    /\ (row.consecutiveTier6 > 0) <=> (row.consecutiveTier5 = 0)
    /\ (row.consecutiveTier5 > 0) <=> (row.consecutiveTier6 = 0)

\* C2 amended: after any sequence of games, consecutiveTier6 > 0 implies
\* consecutiveTier5 = 0 and consecutiveTier5 > 0 implies consecutiveTier6 = 0;
\* both are 0 in the lazily created state (no game yet).
C2_StreaksImplyOtherZero ==
  \A row \in pityTracker :
    /\ (row.consecutiveTier6 > 0) => (row.consecutiveTier5 = 0)
    /\ (row.consecutiveTier5 > 0) => (row.consecutiveTier6 = 0)
    /\ (row.totalGames = 0) => (row.consecutiveTier6 = 0 /\ row.consecutiveTier5 = 0)

\* games are complete and a tier-5 streak follows an earlier game
C2_Witness ==
  /\ \A p \in Procs : req[p].pc = "idle"
  /\ \E row \in pityTracker :
       row.consecutiveTier5 > 0 /\ row.totalGames > row.consecutiveTier5

\* C3: from hardPityCounter = 0, after a run of n tier-6 transitions without a
\* ceiling capture (run one at a time), calculatePityModifiers returns
\* guaranteeCeiling = true when n >= 10 and false when n < 10.
C3_HardPityAfterTen ==
  runOK =>
    \A row \in pityTracker, coin \in BOOLEAN :
      calculatePityModifiers(row, coin).guaranteeCeiling <=> (run6 >= 10)

\* the tenth transition of such a run has been applied
C3_Witness ==
  /\ runOK
  /\ run6 = 10
  /\ \E row \in pityTracker : row.consecutiveTier6 = 10

\* C9: a pity transition of tier 6 stores consecutiveTier6 = (the value it
\* read) + 1 and consecutiveTier5 = 0; of tier 5, consecutiveTier5 = (the value
\* it read) + 1 and consecutiveTier6 = 0; of tier 1..4, both 0.
C9_StreakByTier ==
  [][\A p \in Procs :
       TransitionWrites(p) =>
         \A after \in pityTracker' :
           LET old == req[p].tracker
               tier == req[p].tier
           IN /\ (tier = 6) =>
                   /\ after.consecutiveTier6 = old.consecutiveTier6 + 1
                   /\ after.consecutiveTier5 = 0
              /\ (tier = 5) =>
                   /\ after.consecutiveTier5 = old.consecutiveTier5 + 1
                   /\ after.consecutiveTier6 = 0
              /\ (tier \in 1..4) =>
                   /\ after.consecutiveTier6 = 0
                   /\ after.consecutiveTier5 = 0]_vars

\* two tier-5 games in a row, then nothing pending
C9_Witness ==
  /\ \A p \in Procs : req[p].pc = "idle"
  /\ \E row \in pityTracker :
       row.consecutiveTier5 = 2 /\ row.consecutiveTier6 = 0 /\ row.totalGames = 2

\* C10: a pity transition with a captured ceiling card stores
\* gamesWithoutCeiling = 0, hardPityCounter = 0 and a lastCeilingPull
\* timestamp; one without stores both counters as (the value it read) + 1 and
\* leaves the stored lastCeilingPull as it was.
C10_CeilingTracking ==
  [][\A p \in Procs :
       TransitionWrites(p) =>
         \A before \in pityTracker, after \in pityTracker' :
           LET old == req[p].tracker
           IN IF req[p].pulledCeiling
                THEN /\ after.gamesWithoutCeiling = 0
                     /\ after.hardPityCounter = 0
                     /\ after.lastCeilingPull = <<req[p].now>>
                ELSE /\ after.gamesWithoutCeiling = old.gamesWithoutCeiling + 1
                     /\ after.hardPityCounter = old.hardPityCounter + 1
                     /\ after.lastCeilingPull = before.lastCeilingPull]_vars

\* a ceiling capture followed by one game without
C10_Witness ==
  \E row \in pityTracker :
    /\ row.lastCeilingPull # <<>>
    /\ row.hardPityCounter = 1
    /\ row.gamesWithoutCeiling = 1
    /\ row.totalGames = 2

\* C11: resetPityTracker sets consecutiveTier6, consecutiveTier5,
\* gamesWithoutCeiling and hardPityCounter to 0 and lastCeilingPull to null and
\* leaves totalGames as stored; a second reset changes nothing more.
ResetStep == pityTracker # {} /\ pityTracker' # pityTracker /\ req' = req

C11_ResetZeroesKeepsTotal ==
  [][ResetStep =>
       \A before \in pityTracker, after \in pityTracker' :
         /\ after.consecutiveTier6 = 0
         /\ after.consecutiveTier5 = 0
         /\ after.gamesWithoutCeiling = 0
         /\ after.hardPityCounter = 0
         /\ after.lastCeilingPull = <<>>
         /\ after.totalGames = before.totalGames
         /\ ApplyUpdate(after, resetPityTrackerData) = after]_vars

\* a reset after at least one game: only a reset leaves hardPityCounter = 0
\* with no lastCeilingPull once totalGames > 0
C11_Witness ==
  \E row \in pityTracker :
    /\ row.totalGames > 0
    /\ row.hardPityCounter = 0
    /\ row.lastCeilingPull = <<>>

\* --- card selector claims, on the outcome of generateCardOffers
OwnCards == {c \in catalog : c.pokemonId = offer.pokemonId}
Outside(ids) == {c \in catalog : c.id \notin ids}

\* C4: whenever generateCardOffers returns, cards has exactly 3 entries and
\* cards[0] is a catalog card of the requested guaranteedPokemonId.
C4_ThreeCardsFirstGuaranteed ==
  (offer.status = "ok") =>
    /\ Len(offer.cards) = 3
    /\ offer.cards[1] \in catalog
    /\ offer.cards[1].pokemonId = offer.pokemonId

\* offers returned although the entity has no card at the effective tier or
\* next to it, while another entity has one at the effective tier
C4_Witness ==
  /\ offer.status = "ok"
  /\ \A c \in OwnCards : c.tier \notin {offer.effectiveTier - 1, offer.effectiveTier,
                                        offer.effectiveTier + 1}
  /\ \E c \in catalog : c.pokemonId # offer.pokemonId /\ c.tier = offer.effectiveTier

\* C5: the 3 cards are pairwise distinct whenever a catalog card exists outside
\* the already-chosen ids for each random slot; a random slot repeats a chosen
\* card only as the guaranteed card, and only when no catalog card is outside
\* the already-chosen ids.
C5_DistinctUnlessExhausted ==
  (offer.status = "ok") =>
    LET g == offer.cards[1]
        r1 == offer.cards[2]
        r2 == offer.cards[3]
    IN /\ (Outside({g.id}) # {} /\ Outside({g.id, r1.id}) # {})
            => (g.id # r1.id /\ g.id # r2.id /\ r1.id # r2.id)
       /\ (r1.id = g.id) => (Outside({g.id}) = {})
       /\ (r2.id \in {g.id, r1.id}) => (r2.id = g.id /\ Outside({g.id, r1.id}) = {})

\* a two-card catalog: the second random slot repeats the guaranteed card
C5_Witness ==
  /\ offer.status = "ok"
  /\ offer.cards[2].id # offer.cards[1].id
  /\ offer.cards[3].id = offer.cards[1].id

\* C6 as stated: under hard pity, when a ceiling-flagged card exists at the
\* effective tier, both random cards are ceiling-flagged cards of that tier.
C6_Original ==
  (/\ offer.status = "ok"
   /\ offer.hardPity
   /\ \E c \in catalog : c.tier = offer.effectiveTier /\ c.isCeiling)
    => \A i \in {2, 3} :
         offer.cards[i].isCeiling /\ offer.cards[i].tier = offer.effectiveTier

\* C6 amended: under hard pity, each random slot holds a ceiling-flagged card
\* of the effective tier whenever such a card exists outside the ids already
\* chosen for the earlier slots.
C6_CeilingPerSlot ==
  (offer.status = "ok" /\ offer.hardPity) =>
    \A i \in {2, 3} :
      LET chosen == {offer.cards[j].id : j \in 1..(i - 1)}
      IN (\E c \in Outside(chosen) : c.tier = offer.effectiveTier /\ c.isCeiling)
           => (offer.cards[i].isCeiling /\ offer.cards[i].tier = offer.effectiveTier)

\* hard pity, two ceiling cards of the tier besides the guaranteed card: both
\* random cards are ceiling cards
C6_Witness ==
  /\ offer.status = "ok"
  /\ offer.hardPity
  /\ offer.cards[1].id \notin {offer.cards[2].id, offer.cards[3].id}
  /\ offer.cards[2].isCeiling
  /\ offer.cards[3].isCeiling
  /\ offer.cards[2].id # offer.cards[3].id

\* C7: the guaranteed card has the effective tier when the entity has a card
\* there; otherwise a tier of effectiveTier-1 or effectiveTier+1 (within 1..6)
\* when the entity has a card there; otherwise it is any card of the entity.
C7_FallbackChain ==
  (offer.status = "ok") =>
    LET g == offer.cards[1]
        near == {offer.effectiveTier - 1, offer.effectiveTier + 1} \cap Tiers
        exact == {c \in OwnCards : c.tier = offer.effectiveTier}
        adjacent == {c \in OwnCards : c.tier \in near}
    IN /\ g \in OwnCards
       /\ (exact # {}) => (g \in exact)
       /\ (exact = {} /\ adjacent # {}) => (g \in adjacent)

\* step 2 decided: no card at the effective tier, one next to it, one further
C7_Witness ==
  /\ offer.status = "ok"
  /\ \A c \in OwnCards : c.tier # offer.effectiveTier
  /\ \E c \in OwnCards : c.tier \in {offer.effectiveTier - 1, offer.effectiveTier + 1}
  /\ \E c \in OwnCards : c.tier \notin {offer.effectiveTier - 1, offer.effectiveTier + 1}

C17_NaIffMonoAnswer ==
  (output.fn = "generateFeedback") =>
    ((output.value.type2 = "n/a") <=> (input.answer.type2 = Null))

\* a dual-typed guess whose second type is the mono-typed answer's only type
C17_Witness ==
  /\ output.fn = "generateFeedback"
  /\ input.answer.type2 = Null
  /\ input.guess.type2 = input.answer.type1
  /\ output.value.type2 = "n/a"

\* C18: the slot-1 verdict is 'partial' exactly when guess.type1 equals
\* answer.type2 and differs from answer.type1; the slot-2 verdict is 'partial'
\* exactly when the answer is dual-typed and guess.type2 equals answer.type1
\* and differs from answer.type2; no other verdict is ever 'partial'.
C18_PartialIffOtherSlot ==
  (output.fn = "generateFeedback") =>
    LET guess == input.guess
        answer == input.answer
        feedback == output.value
    IN /\ (feedback.type1 = "partial") <=>
            (guess.type1 = answer.type2 /\ guess.type1 # answer.type1)
       /\ (feedback.type2 = "partial") <=>
            (/\ answer.type2 # Null
             /\ guess.type2 = answer.type1
             /\ guess.type2 # answer.type2)
       /\ "partial" \notin {feedback.evolutionStage, feedback.fullyEvolved,
                            feedback.color, feedback.generation}

\* the guess has the answer's two types in swapped slots
C18_Witness ==
  /\ output.fn = "generateFeedback"
  /\ input.answer.type2 # Null
  /\ input.guess.type1 = input.answer.type2
  /\ input.guess.type2 = input.answer.type1
  /\ output.value.type1 = "partial"
  /\ output.value.type2 = "partial"

\* C20: for every tier 1..6 isFloorCard is true for exactly one rarity, the
\* first of the tier's list, and isCeilingCard for exactly one, the last of
\* the list; isFloorCard('Common', 6) and isCeilingCard('Double Rare', 5) are
\* true; both are false for a rarity that is not in the tier's list.
C20_OneFloorOneCeiling ==
  (output.fn \in {"isFloorCard", "isCeilingCard"} /\ input.tier \in Tiers) =>
    LET list == TIER_RARITY_MAP[input.tier]
        eligible == {list[i] : i \in 1..Len(list)}
    IN /\ (output.fn = "isFloorCard") =>
            /\ output.value = (input.rarity = list[1])
            /\ Cardinality({r \in RarityNames : isFloorCard(r, input.tier)}) = 1
            /\ (input.rarity = "Common" /\ input.tier = 6) => output.value
       /\ (output.fn = "isCeilingCard") =>
            /\ output.value = (input.rarity = list[Len(list)])
            /\ Cardinality({r \in RarityNames : isCeilingCard(r, input.tier)}) = 1
            /\ (input.rarity = "Double Rare" /\ input.tier = 5) => output.value
       /\ (input.rarity \notin eligible) => ~output.value

C20_Witness ==
  /\ output.fn = "isCeilingCard"
  /\ input.rarity = "Double Rare"
  /\ input.tier = 5
  /\ output.value

\* --- game claims, on one game played by concurrent clients

\* the user's pity counters, a missing row read as all zeros
PityCounters == IF pityTracker = {} THEN {ZeroTracker} ELSE pityTracker

\* C12: generating offers never changes a pity counter: the final guess, the
\* regeneration of offers on a game read and calculatePityModifiers leave the
\* six fields as they are (a missing row counting as all zeros); they change
\* only in the pity write of a capture request that created its capture record.
C12_OffersKeepPity ==
  [][(PityCounters' # PityCounters) =>
       \E p \in Clients :
         /\ client[p].op = "capture"
         /\ client[p].pc = "pityTracker.update"
         /\ client'[p].pc = "idle"
         /\ \E userCard \in userCards : userCard.cardId = client[p].cardId]_vars

\* offers were generated at the final guess and again on a game read, each
\* after a getPityTracker call, and the row is still all zeros
C12_Witness ==
  /\ game.completed
  /\ game.offeredCardIds # <<>>
  /\ pityTracker = {ZeroTracker}
  /\ \E p \in Clients : client[p].op = "get" /\ client[p].pc = "offers"

\* C13: no game causes more than one pity transition, however capture
\* requests for it interleave between the already-captured check, the
\* creation of the capture record and the pity update.
C13_OnePityTransitionPerGame ==
  /\ pityWrites <= 1
  /\ Cardinality(userCards) <= 1
  /\ Cardinality({p \in Clients : client[p].pc \in
                     {"pokedexEntry.upsert", "updatePityTracker", "pityTracker.update"}})
       + pityWrites <= Cardinality(userCards)

\* two capture requests passed the already-captured check; one has written
\* its transition, the other is about to create its capture record
C13_Witness ==
  /\ pityWrites = 1
  /\ \E p \in Clients : client[p].pc = "userCard.create"

\* C14: once the game is completed no guess record is added and completed,
\* won, guessesUsed and tier never change again.
C14_CompletedIsTerminal ==
  [][game.completed =>
       /\ guesses' = guesses
       /\ game'.completed = game.completed
       /\ game'.won = game.won
       /\ game'.guessesUsed = game.guessesUsed
       /\ game'.tier = game.tier]_vars

\* C15: the game has at most 6 guess records and their guessNum values are
\* distinct.
C15_AtMostSixDistinctGuesses ==
  /\ Cardinality(guesses) <= 6
  /\ \A g1, g2 \in guesses : (g1.guessNum = g2.guessNum) => (g1 = g2)

\* C16: an accepted guess completes the game exactly when the guessed id is
\* the answer's id or the guess is the request's 6th, and then writes won as
\* true exactly when the ids are equal; no other step completes the game or
\* writes won.  A guess of the entity that shares the six compared attributes
\* with the answer gets only 'correct' and 'n/a' verdicts and neither wins
\* nor, before the 6th guess, completes the game.
GuessAccepted(p) == client[p].pc = "guess.create" /\ client'[p].pc # "guess.create"
GuessCompletes(p) == client[p].op = "guess" /\ client[p].pc = "offers" /\ client'[p].pc = "idle"

C19_TierIsGuessesUsed ==
  /\ \A n \in (0 - MaxGuessCount)..MaxGuessCount :
       /\ calculateTier(n) <= calculateTier(n + 1)
       /\ calculateTier(n) \in Tiers
       /\ (n <= 1) => calculateTier(n) = 1
       /\ (1 <= n /\ n <= 6) => calculateTier(n) = n
       /\ (n >= 6) => calculateTier(n) = 6
  /\ game.completed => game.tier = game.guessesUsed

\* C23: each of the 12 rarity names maps, by getTiersForRarity, to a
\* non-empty set of tiers that is a contiguous range within 1..6.
C23_TiersNonEmptyContiguous ==
  (output.fn = "getTiersForRarity") =>
    LET tiers == Elements(output.value)
    IN /\ tiers # {}
       /\ tiers \subseteq Tiers
       /\ \A a \in tiers, b \in tiers, t \in Tiers : (a < t /\ t < b) => t \in tiers

\* C29: a rarity is in getRaritiesForTier(t) exactly when t is in
\* getTiersForRarity of the rarity, for every tier t in 1..6; for a rarity of
\* RARITY_TO_TIERS assignTierToCard is the lowest of its tiers.
C29_TablesConsistent ==
  /\ (output.fn = "getTiersForRarity") =>
       \A t \in Tiers :
         (input.rarity \in Elements(getRaritiesForTier(t))) <=>
           (t \in Elements(output.value))
  /\ (output.fn = "assignTierToCard" /\ input.rarity \in DOMAIN RARITY_TO_TIERS) =>
       /\ output.value \in Elements(getTiersForRarity(input.rarity))
       /\ \A t \in Elements(getTiersForRarity(input.rarity)) : output.value <= t

\* a rarity of four tiers gets the best of them
C29_Witness ==
  /\ output.fn = "assignTierToCard"
  /\ input.rarity = "Double Rare"
  /\ output.value = 2

\* C30: in every tier's rarity list, from floor to ceiling, the base weight
\* of a rarity is not greater than that of the rarity before it.
C30_WeightsDecrease ==
  (output.fn = "getWeightForRarity") =>
    \A t \in Tiers :
      LET list == getRaritiesForTier(t)
      IN \A i \in 2..Len(list) :
           (list[i] = input.rarity) => output.value <= getWeightForRarity(list[i - 1])

\* C26: calculatePityModifiers returns guaranteeCeiling with multiplier 1.0
\* and no tierBoost when hardPityCounter >= 10; otherwise no guaranteeCeiling
\* and the multiplier max(a, b), a being 2.5 for consecutiveTier6 >= 3, 1.5
\* for consecutiveTier6 = 2, else 1.0, and b being 2.0 for gamesWithoutCeiling
\* >= 7, 1.3 for 5 or 6, else 1.0; the multiplier is never below 1.0.
\* Multipliers are in tenths.
C26_PityModifiers ==
  (output.fn = "calculatePityModifiers") =>
    LET pity == input.pity
        a == IF pity.consecutiveTier6 >= 3 THEN 25
             ELSE IF pity.consecutiveTier6 = 2 THEN 15 ELSE 10
        b == IF pity.gamesWithoutCeiling >= 7 THEN 20
             ELSE IF pity.gamesWithoutCeiling \in {5, 6} THEN 13 ELSE 10
    IN /\ output.value.ceilingWeightMultiplier >= 10
       /\ IF pity.hardPityCounter >= 10
            THEN /\ output.value.guaranteeCeiling
                 /\ output.value.ceilingWeightMultiplier = 10
                 /\ ~output.value.tierBoost
            ELSE /\ ~output.value.guaranteeCeiling
                 /\ output.value.ceilingWeightMultiplier = IF a >= b THEN a ELSE b

\* two tier-6 games in a row and seven games without a ceiling: 2.0 wins over 1.5
C26_Witness ==
  /\ output.fn = "calculatePityModifiers"
  /\ input.pity.consecutiveTier6 = 2
  /\ input.pity.gamesWithoutCeiling = 7
  /\ input.pity.hardPityCounter = 9
  /\ output.value.ceilingWeightMultiplier = 20

\* C28: the evolutionStage, fullyEvolved, color and generation verdicts are
\* 'correct' for equal values and 'wrong' otherwise; the slot-1 type verdict
\* is never 'n/a'; a guess of the answer itself gets 'correct' everywhere
\* except 'n/a' in slot 2 of a mono-typed answer.
C28_ExactVerdicts ==
  (output.fn = "generateFeedback") =>
    LET guess == input.guess
        answer == input.answer
        feedback == output.value
    IN /\ \A f \in {"evolutionStage", "fullyEvolved", "color", "generation"} :
            feedback[f] = IF guess[f] = answer[f] THEN "correct" ELSE "wrong"
       /\ feedback.type1 # "n/a"
       /\ (guess = answer) =>
            /\ \A f \in DOMAIN feedback \ {"type2"} : feedback[f] = "correct"
            /\ feedback.type2 = IF answer.type2 = Null THEN "n/a" ELSE "correct"

\* a mono-typed answer guessed itself
C28_Witness ==
  /\ output.fn = "generateFeedback"
  /\ input.guess = input.answer
  /\ input.answer.type2 = Null
  /\ output.value.type2 = "n/a"
  /\ output.value.color = "correct"

\* C25: the effective tier of an offer is tier - 1 when the tier boost fired
\* and tier > 1, and tier otherwise; it lies in 1..6 and is at most one step
\* better than the earned tier; the tier boost fires only with
\* consecutiveTier6 >= 3 and hardPityCounter < 10, never together with the
\* ceiling guarantee.
C25_EffectiveTier ==
  (offer.status # "none") =>
    /\ offer.effectiveTier = IF offer.tierBoost /\ offer.tier > 1
                               THEN offer.tier - 1 ELSE offer.tier
    /\ offer.effectiveTier \in Tiers
    /\ offer.tier - offer.effectiveTier \in {0, 1}
    /\ offer.tierBoost =>
         \E row \in pityTracker :
           row.consecutiveTier6 >= 3 /\ row.hardPityCounter < 10
    /\ ~(offer.tierBoost /\ offer.hardPity)

\* after three tier-6 games the boost fires on a tier-6 result: tier 5 offered
C25_Witness ==
  /\ offer.status = "ok"
  /\ offer.tierBoost
  /\ offer.tier = 6
  /\ offer.effectiveTier = 5
  /\ \A i \in 1..3 : offer.cards[i].tier = 5

\* C24: each random card (offer slots 2 and 3) has the effective tier and an
\* id outside the ids chosen before it whenever a card of the effective tier
\* remains outside those ids; a random slot holds a card of another tier only
\* when that pool is empty.
C24_RandomCardsOfEffectiveTier ==
  (offer.status = "ok") =>
    \A i \in 2..3 :
      LET chosen == {offer.cards[j].id : j \in 1..(i - 1)}
          pool == {c \in catalog : c.tier = offer.effectiveTier /\ c.id \notin chosen}
      IN /\ pool # {} => offer.cards[i] \in pool
         /\ offer.cards[i].tier # offer.effectiveTier => pool = {}

\* the first random card drawn from the pool, the second one after the pool
\* ran out: a card of another tier
C24_Witness ==
  /\ offer.status = "ok"
  /\ offer.cards[2].tier = offer.effectiveTier
  /\ offer.cards[2].id # offer.cards[1].id
  /\ offer.cards[3].tier # offer.effectiveTier
  /\ offer.cards[3].id \notin {offer.cards[1].id, offer.cards[2].id}

\* C22: a card is captured for a game only after the game has been won: no
\* UserCard row is created while the game's won flag is false.
C22_CaptureOnlyAfterWin ==
  [][userCards' # userCards => game.won]_vars

\* C27: the pity reset is keyed on the captured card, not on the offered
\* set: as long as the game has no captured card that is ceiling-flagged,
\* whatever its offers hold, gamesWithoutCeiling and hardPityCounter are
\* never lowered; the game's pity update raises both by one, and no other
\* step changes them.
C27_ResetKeyedOnCapturedCard ==
  [][\A row \in pityTracker, after \in pityTracker' :
       LET captured == {c \in catalog : \E u \in userCards : u.cardId = c.id}
       IN (\A c \in captured : ~c.isCeiling) =>
            IF pityWrites' # pityWrites
              THEN /\ after.gamesWithoutCeiling = row.gamesWithoutCeiling + 1
                   /\ after.hardPityCounter = row.hardPityCounter + 1
              ELSE /\ after.gamesWithoutCeiling = row.gamesWithoutCeiling
                   /\ after.hardPityCounter = row.hardPityCounter]_vars

\* a ceiling-flagged card was offered, the card captured is not
\* ceiling-flagged, and the pity update has been written
C27_Witness ==
  /\ pityWrites = 1
  /\ \E i \in DOMAIN game.offeredCardIds :
       \E c \in catalog : c.id = game.offeredCardIds[i] /\ c.isCeiling
  /\ userCards # {}
  /\ \A u \in userCards : \E c \in catalog : c.id = u.cardId /\ ~c.isCeiling
  /\ \A row \in pityTracker : row.gamesWithoutCeiling = 1 /\ row.hardPityCounter = 1

\* C21: selectRandomPokemon fails only when no card-bearing entity is
\* spawn-configured for the biome at any time of day; when the pool of the
\* requested time (that time or 'both') is empty but a card-bearing entity
\* is configured for the biome at another time, one of those is returned;
\* when it fails POST /games creates no game.
C21_FallbackToAnyTime ==
  /\ Cardinality(games) = Cardinality({i \in DOMAIN responses : responses[i].status = 201})
  /\ \A i \in DOMAIN responses :
       LET r == responses[i]
           configured == {s \in pokemonSpawn :
                            s.biomeId = r.biomeId /\ hasCards(s.pokemonId)}
           timed == {s \in configured : s.timeOfDay \in {r.timeOfDay, "both"}}
       IN (r.timeOfDay \in TimesOfDay /\ r.biomeId \in BiomeIds) =>
            /\ r.status \in {201, 400}
            /\ r.status = 400 <=> configured = {}
            /\ r.status = 400 => r.gameId = 0
            /\ r.status = 201 =>
                 \E g \in games :
                   /\ g.id = r.gameId
                   /\ g.biomeId = r.biomeId
                   /\ \E s \in configured : s.pokemonId = g.pokemonId
            /\ (r.status = 201 /\ timed = {}) =>
                 \E g \in games :
                   /\ g.id = r.gameId
                   /\ \E s \in configured :
                        s.pokemonId = g.pokemonId /\ s.timeOfDay \notin {r.timeOfDay, "both"}

\* a day request in a biome whose only card-bearing entity spawns at night
\* started a game; a request in a biome without one was refused
C21_Witness ==
  /\ Len(responses) = 2
  /\ responses[1].status = 201
  /\ responses[1].timeOfDay = "day"
  /\ \A s \in pokemonSpawn :
       (s.biomeId = responses[1].biomeId /\ hasCards(s.pokemonId)) => s.timeOfDay = "night"
  /\ responses[2].status = 400
  /\ responses[2].biomeId \in BiomeIds
  /\ responses[2].timeOfDay \in TimesOfDay
  /\ Cardinality(games) = 1

\* C31: every entity selectRandomPokemon returns has a card in the catalog
\* and is spawn-configured for the requested biome; when a card-bearing
\* entity is configured for the requested time of day or for 'both', the
\* entity returned is one of those, never one configured only for the other
\* time of day.
C31_SelectedIsConfigured ==
  \A i \in DOMAIN responses :
    responses[i].status = 201 =>
      \A g \in games :
        g.id = responses[i].gameId =>
          LET inBiome == {s \in pokemonSpawn : s.biomeId = responses[i].biomeId}
              timed == {s \in inBiome :
                          /\ s.timeOfDay \in {responses[i].timeOfDay, "both"}
                          /\ hasCards(s.pokemonId)}
          IN /\ hasCards(g.pokemonId)
             /\ g.pokemonId \in {s.pokemonId : s \in inBiome}
             /\ timed # {} => g.pokemonId \in {s.pokemonId : s \in timed}

\* a night game started with the entity configured for night, while the
\* other card-bearing entity of the biome is configured for day only
C31_Witness ==
  /\ Len(responses) >= 1
  /\ responses[1].status = 201
  /\ responses[1].biomeId = 1
  /\ responses[1].timeOfDay = "night"
  /\ \A c \in {1, 2} : hasCards(c)
  /\ {s.id : s \in pokemonSpawn} = {1, 5}
  /\ \E g \in games : g.id = responses[1].gameId /\ g.pokemonId = 2

\* C33: in every weighted draw, the draw over pity-weighted random-card
\* pools included, an item of weight zero counts as weight 1: every item of
\* the list can be drawn, and the draw returns a member of the list.
C33_ZeroWeightDrawn ==
  (output.fn = "selectWeightedRandom") =>
    output.value = {input.items[i] : i \in 1..Len(input.items)}

C36_Original ==
  [][\A row \in pityTracker :
       (row.hardPityCounter >= 10) =>
         /\ \A coin \in BOOLEAN : calculatePityModifiers(row, coin).guaranteeCeiling
         /\ (~ResetStep /\ ~(\E p \in Procs : TransitionWrites(p) /\ req[p].pulledCeiling)) =>
              \A after \in pityTracker', coin \in BOOLEAN :
                /\ after.hardPityCounter >= 10
                /\ calculatePityModifiers(after, coin).guaranteeCeiling]_vars

\* C36 amended: once hardPityCounter has reached 10, calculatePityModifiers
\* returns guaranteeCeiling until a pity transition is written or an admin
\* reset occurs; a transition without a ceiling capture that read
\* hardPityCounter >= 9 keeps hard pity active.
C36_HardPityStaysWhenRead ==
  [][\A row \in pityTracker :
       (row.hardPityCounter >= 10) =>
         /\ \A coin \in BOOLEAN : calculatePityModifiers(row, coin).guaranteeCeiling
         /\ (~ResetStep /\ ~(\E p \in Procs : TransitionWrites(p))) =>
              pityTracker' = pityTracker
         /\ \A p \in Procs :
              (/\ TransitionWrites(p)
               /\ ~req[p].pulledCeiling
               /\ req[p].tracker.hardPityCounter >= 9) =>
                \A after \in pityTracker', coin \in BOOLEAN :
                  /\ after.hardPityCounter >= 10
                  /\ calculatePityModifiers(after, coin).guaranteeCeiling]_vars

\* three games without a ceiling capture, one after the other: the last one
\* was played under hard pity and kept it
C36_Witness ==
  \E row \in pityTracker :
    /\ row.hardPityCounter = 11
    /\ row.gamesWithoutCeiling = 11
    /\ row.totalGames = 11
    /\ row.lastCeilingPull = <<>>

\* C38: once the game's offeredCardIds is persisted as a non-null list it
\* never changes, however final-guess requests and GET /games/:id requests
\* that regenerate missing offers interleave.
C38_OffersNeverChange ==
  [][game.offeredCardIds # <<>> => game'.offeredCardIds = game.offeredCardIds]_vars

\* C39: under any interleaving of capture requests the game has at most one
\* capture record, and every capture record belongs to a completed game and
\* names a card that is one of the game's offered card ids.
C39_CaptureRecordValid ==
  /\ Cardinality(userCards) <= 1
  /\ \A u \in userCards :
       /\ game.completed
       /\ \E i \in DOMAIN game.offeredCardIds : game.offeredCardIds[i] = u.cardId

\* the capture request of client p passed every check of the handler: the
\* game it read was completed and offered the card it names
CaptureAccepted(p) ==
  /\ client[p].op = "capture"
  /\ game.completed
  /\ \E i \in DOMAIN client[p].offeredCardIds : client[p].offeredCardIds[i] = client[p].cardId
  /\ \E c \in catalog : c.id = client[p].cardId

NextGameFaults ==
  \/ NextGame
  \/ \E p \in Clients : capturePersistenceFails(p)

SpecGameFaults == InitGame /\ [][NextGameFaults]_vars

\* C35: reward persistence and the pity update are a unit: when no capture
\* request is in progress, a game with a capture record has had its pity
\* transition applied, and a game with a pity transition applied has its
\* offered card ids persisted, also when a persistence operation has failed
\* part-way through a request.
C35_RewardAndPityAreAUnit ==
  (\A p \in Clients : client[p].op # "capture") =>
    /\ userCards # {} => pityWrites >= 1
    /\ pityWrites >= 1 => game.offeredCardIds # <<>>

\* a game started by POST /games and then played: the catalogs hold cards of
\* both entities or of the other entity only, the spawn tables list the
\* answer alone or both entities
PlayCatalogs == {{Card(1, 9), Card(2, 10), Card(3, 23)}, {Card(1, 22), Card(2, 23)}}
PlaySpawnTables == {{Spawn(3, 1, 1, "both")}, {Spawn(3, 1, 1, "both"), Spawn(6, 2, 1, "both")}}

InitPlay ==
  /\ PityInit
  /\ catalog \in PlayCatalogs
  /\ offer = NoOffer
  /\ input = NoCall
  /\ output = NoCall
  /\ game = NewGame
  /\ guesses = {}
  /\ userCards = {}
  /\ pokedex = {}
  /\ client = [p \in Clients |-> IdleClient]
  /\ requests = 0
  /\ pityWrites = 0
  /\ pokemonSpawn \in PlaySpawnTables
  /\ NoGameStarted

\* the game played is the first game POST /games created, when
\* selectRandomPokemon drew the answer for it
GameStarted == \E g \in games : g.id = 1 /\ g.pokemonId = AnswerId

\* generateCardOffers at the end of another game of the user: getPityTracker
\* found no row and creates it
otherGamePityCreate ==
  /\ \E g \in games : g.id # 1
  /\ pityTracker = {}
  /\ pityTracker' = {ZeroTracker}
  /\ run6' = 0
  /\ runOK' = TRUE
  /\ UNCHANGED <<req, clock, offer, catalog, logicVars, startVars>>
  /\ UNCHANGED <<game, guesses, userCards, pokedex, client, requests, pityWrites>>

NextPlay ==
  \/ \E timeOfDay \in TimesOfDay : postGames(1, timeOfDay)
  \/ GameStarted /\ NextGame
  \/ otherGamePityCreate

SpecPlay == InitPlay /\ [][NextPlay]_vars

\* C40: a game created through POST /games, on a catalog that is not
\* modified, is completed with three persisted offered card ids whose first
\* card belongs to the answer entity: once no request is in progress, every
\* completed game has them.
C40_CompletedGameHasOffers ==
  (game.completed /\ \A p \in Clients : client[p].pc = "idle") =>
    /\ Len(game.offeredCardIds) = 3
    /\ \E c \in catalog : c.id = game.offeredCardIds[1] /\ c.pokemonId = AnswerId

====
